---- MODULE Spec2Model ----
(***************************************************************************)
(* A model of plotlib's View (src/view.rs): the builder calls new, add,    *)
(* x_range and y_range, the range resolution default_x_range and           *)
(* default_y_range, and the two renderings to_svg and to_text.             *)
(*                                                                         *)
(* f64 values are records: a finite number, an infinity or NaN.  Machine   *)
(* integers (i32, u32) keep their two's-complement behaviour on a word of  *)
(* IntBits bits.  The collaborators of View that live in other modules of  *)
(* the crate (axis, representation, svg_render, text_render) are modelled  *)
(* from their description.                                                 *)
(***************************************************************************)
EXTENDS Integers, Sequences, FiniteSets, TLC

\* ------------------------------------------------------------------------
\* Bounds of the model
\* ------------------------------------------------------------------------
MaxReprs == 2     \* longest representations list explored
MaxFace == 2      \* largest face_width / face_height a caller passes in Spec
IntBits == 4      \* width of the machine word standing for i32 / u32

\* ------------------------------------------------------------------------
\* f64
\* ------------------------------------------------------------------------
Num(n) == [k |-> "num", v |-> n]
INFINITY == [k |-> "inf", v |-> 1]
NEG_INFINITY == [k |-> "inf", v |-> -1]
NAN == [k |-> "nan", v |-> 0]

is_nan(a) == a.k = "nan"

\* a < b on f64: false whenever an operand is NaN
f64_lt(a, b) ==
    /\ ~is_nan(a)
    /\ ~is_nan(b)
    /\ IF a.k = "inf"
       THEN a.v = -1 /\ b # a
       ELSE IF b.k = "inf" THEN b.v = 1 ELSE a.v < b.v

\* fault: the fold keeps the latest minimum instead of the least
f64_min_last(self, other) == other
\* f64::min: the smaller operand; a NaN operand is ignored
f64_min(self, other) ==
    IF is_nan(self) THEN other
    ELSE IF is_nan(other) THEN self
    ELSE IF f64_lt(other, self) THEN other ELSE self

\* fault: the fold keeps the latest maximum instead of the greatest
f64_max_last(self, other) == other
\* f64::max: the larger operand; a NaN operand is ignored
f64_max(self, other) ==
    IF is_nan(self) THEN other
    ELSE IF is_nan(other) THEN self
    ELSE IF f64_lt(self, other) THEN other ELSE self

\* ------------------------------------------------------------------------
\* Option, axis::Range, axis::Axis
\* ------------------------------------------------------------------------
None == [some |-> FALSE]
Some(x) == [some |-> TRUE, val |-> x]

\* Option::unwrap_or
unwrap_or(opt, default) == IF opt.some THEN opt.val ELSE default

\* axis::Range::new: the pair, stored verbatim
Range_new(lower, upper) == [lower |-> lower, upper |-> upper]

\* axis::Axis::new: an axis is a function of its range only
Axis_new(lower, upper) == [lower |-> lower, upper |-> upper]

\* ------------------------------------------------------------------------
\* Representations the caller owns.  Each reports a data extent per
\* dimension and draws a face with its own glyph.
\* ------------------------------------------------------------------------
ReprA == [name |-> "A", glyph |-> "o", dense |-> FALSE,
          extent |-> << <<Num(0), Num(1)>>, <<Num(0), Num(1)>> >>]
ReprB == [name |-> "B", glyph |-> "#", dense |-> TRUE,
          extent |-> << <<Num(-1), Num(2)>>, <<Num(1), Num(3)>> >>]
ReprC == [name |-> "C", glyph |-> "x", dense |-> FALSE,
          extent |-> << <<INFINITY, NEG_INFINITY>>, <<NAN, Num(2)>> >>]
Reprs == {ReprA, ReprB, ReprC}

\* Representation::range(dim), dim 0 = x, dim 1 = y
repr_range(repr, dim) == repr.extent[dim + 1]

\* arguments callers pass to x_range / y_range
RangeArgs == { <<Num(-10), Num(10)>>, <<Num(0), Num(1)>> }

\* ------------------------------------------------------------------------
\* State
\* ------------------------------------------------------------------------
VARIABLES
    representations,   \* View.representations
    x_range,           \* View.x_range : Option<Range>
    y_range,           \* View.y_range : Option<Range>
    overflow_checks,   \* build profile: TRUE = overflow panics, FALSE = wraps
    out,               \* value returned by the latest render of this View
    first,             \* history: the first render of this View value
    added,             \* history: arguments of the add calls, in call order
    x_set,             \* history: arguments of the latest x_range call
    y_set,             \* history: arguments of the latest y_range call
    lay                \* to_text run on arbitrary text-backend results

view_vars == <<representations, x_range, y_range>>
hist_vars == <<added, x_set, y_set>>
vars == <<representations, x_range, y_range, overflow_checks, out, first,
          added, x_set, y_set, lay>>


\* ------------------------------------------------------------------------
\* Range resolution
\* ------------------------------------------------------------------------
RECURSIVE fold_range(_, _, _, _)
\* the for loop of default_x_range / default_y_range over reprs, in order,
\* carrying (lo, hi)
fold_range(reprs, dim, lo, hi) ==
    IF reprs = <<>>
    THEN Range_new(lo, hi)
    ELSE LET this == repr_range(Head(reprs), dim)
         IN fold_range(Tail(reprs), dim, f64_min(lo, this[1]), f64_max(hi, this[2]))

default_x_range(reprs) == fold_range(reprs, 0, INFINITY, NEG_INFINITY)

default_y_range(reprs) == fold_range(reprs, 1, INFINITY, NEG_INFINITY)

\* fault: the computed default wins over the override
resolve_default_first(override, default) == default
\* self.x_range.as_ref().unwrap_or(&default_x_range)
resolve(override, default) == unwrap_or(override, default)

\* the x axis both renderings build
x_axis_of(reprs, xr) ==
    LET r == resolve(xr, default_x_range(reprs)) IN Axis_new(r.lower, r.upper)

\* the y axis both renderings build
y_axis_of(reprs, yr) ==
    LET r == resolve(yr, default_y_range(reprs)) IN Axis_new(r.lower, r.upper)

\* ------------------------------------------------------------------------
\* Builder calls
\* ------------------------------------------------------------------------
\* fault: the representation is inserted at the front
push_front(v, repr) == <<repr>> \o v
\* Vec::push
push(v, repr) == Append(v, repr)

NoRender == [kind |-> "none"]

\* View::new
new ==
    /\ representations = <<>>
    /\ x_range = None
    /\ y_range = None

\* View::add
add(repr) ==
    /\ Len(representations) < MaxReprs
    /\ representations' = push(representations, repr)
    /\ added' = Append(added, repr)
    /\ out' = NoRender
    /\ first' = NoRender
    /\ UNCHANGED <<x_range, y_range, overflow_checks, x_set, y_set, lay>>

\* Some(axis::Range::new(min, max))
set_range(min, max) == Some(Range_new(min, max))

\* View::x_range
set_x_range(min, max) ==
    /\ x_range' = set_range(min, max)
    /\ x_set' = Some(<<min, max>>)
    /\ out' = NoRender
    /\ first' = NoRender
    /\ UNCHANGED <<representations, y_range, overflow_checks, added, y_set, lay>>

\* View::y_range
set_y_range(min, max) ==
    /\ y_range' = set_range(min, max)
    /\ y_set' = Some(<<min, max>>)
    /\ out' = NoRender
    /\ first' = NoRender
    /\ UNCHANGED <<representations, x_range, overflow_checks, added, x_set, lay>>

\* ------------------------------------------------------------------------
\* Vector rendering
\* ------------------------------------------------------------------------
\* Representation::to_svg: the group a representation draws
repr_to_svg(repr, x_axis, y_axis, face_width, face_height) ==
    [node |-> "repr", repr |-> repr.name, x_axis |-> x_axis, y_axis |-> y_axis,
     face_width |-> face_width, face_height |-> face_height]

\* svg_render::draw_x_axis
draw_x_axis(x_axis, face_width) ==
    [node |-> "x_axis", axis |-> x_axis, face |-> face_width]

\* svg_render::draw_y_axis
draw_y_axis(y_axis, face_height) ==
    [node |-> "y_axis", axis |-> y_axis, face |-> face_height]

\* fault: the axis furniture is appended before the representations
svg_group_axes_first(reprs, xr, yr, face_width, face_height) ==
    LET x_axis == x_axis_of(reprs, xr)
        y_axis == y_axis_of(reprs, yr)
    IN <<draw_x_axis(x_axis, face_width), draw_y_axis(y_axis, face_height)>>
       \o [i \in 1..Len(reprs) |->
              repr_to_svg(reprs[i], x_axis, y_axis, face_width, face_height)]
\* the children of the group to_svg returns, in document order
svg_group(reprs, xr, yr, face_width, face_height) ==
    LET x_axis == x_axis_of(reprs, xr)
        y_axis == y_axis_of(reprs, yr)
    IN [i \in 1..Len(reprs) |->
           repr_to_svg(reprs[i], x_axis, y_axis, face_width, face_height)]
       \o <<draw_x_axis(x_axis, face_width), draw_y_axis(y_axis, face_height)>>

\* what a render call leaves behind: the returned value with the axes it used
svg_result(reprs, xr, yr, face_width, face_height) ==
    [kind |-> "svg", face_width |-> face_width, face_height |-> face_height,
     x_axis |-> x_axis_of(reprs, xr), y_axis |-> y_axis_of(reprs, yr),
     group |-> svg_group(reprs, xr, yr, face_width, face_height)]

\* View::to_svg
to_svg(face_width, face_height) ==
    /\ out' = svg_result(representations, x_range, y_range, face_width, face_height)
    /\ first' = IF first = NoRender THEN [kind |-> "first", view |-> view_vars, render |-> out']
                 ELSE first
    /\ UNCHANGED <<representations, x_range, y_range, overflow_checks,
                   added, x_set, y_set, lay>>


\* ------------------------------------------------------------------------
\* Machine integers on a word of IntBits bits
\* ------------------------------------------------------------------------
Word == 2 ^ IntBits
I32_MIN == -(Word \div 2)
I32_MAX == (Word \div 2) - 1
U32_MAX == Word - 1

\* the i32 with the same low bits as n
wrap_i32(n) == ((n - I32_MIN) % Word) + I32_MIN

\* the u32 with the same low bits as n (also the cast `as u32`)
wrap_u32(n) == n % Word

\* i32::wrapping_neg
wrapping_neg(n) == wrap_i32(-n)

i32_max(a, b) == IF a >= b THEN a ELSE b

\* ------------------------------------------------------------------------
\* The layout arithmetic of to_text
\* ------------------------------------------------------------------------
\* std::cmp::max(longest_y_label_width as i32 + 1, start_offset.wrapping_neg()) as u32
left_gutter_width(longest_y_label_width, start_offset) ==
    wrap_u32(i32_max(wrap_i32(longest_y_label_width + 1), wrapping_neg(start_offset)))

\* face_width + 1 + left_gutter_width + 1
view_width(face_width, lgw) == wrap_u32(face_width + 1 + lgw + 1)

\* face_height + 3
view_height(face_height) == wrap_u32(face_height + 3)

\* left_gutter_width as i32 + 1
face_x(lgw) == wrap_i32(wrap_i32(lgw) + 1)

\* left_gutter_width as i32 - 1 - longest_y_label_width
y_label_x(lgw, longest_y_label_width) ==
    wrap_i32(wrap_i32(lgw) - 1 - longest_y_label_width)

\* left_gutter_width as i32 + 0
x_label_x(lgw) == wrap_i32(lgw)

\* face_height as i32 + 0
x_label_y(face_height) == wrap_i32(face_height)

\* an arithmetic operation of to_text overflows: the additions and
\* subtractions on i32 / u32, in the order the function evaluates them (the
\* casts and wrapping_neg never overflow).  All operands of one expression
\* have the same sign, so an intermediate result overflows exactly when the
\* final one does.
overflows(face_width, face_height, longest_y_label_width, start_offset, nreprs) ==
    LET lgw == left_gutter_width(longest_y_label_width, start_offset)
    IN \/ longest_y_label_width + 1 > I32_MAX
       \/ face_width + 1 + lgw + 1 > U32_MAX
       \/ face_height + 3 > U32_MAX
       \/ nreprs > 0 /\ wrap_i32(lgw) + 1 > I32_MAX
       \/ wrap_i32(lgw) - 1 - longest_y_label_width < I32_MIN

\* the locals of to_text once the layout is computed; a build with overflow
\* checks panics instead
layout(face_width, face_height, longest_y_label_width, start_offset, nreprs, checks) ==
    IF checks /\ overflows(face_width, face_height, longest_y_label_width,
                           start_offset, nreprs)
    THEN [panicked |-> TRUE]
    ELSE LET lgw == left_gutter_width(longest_y_label_width, start_offset)
         IN [panicked |-> FALSE,
             left_gutter_width |-> lgw,
             view_width |-> view_width(face_width, lgw),
             view_height |-> view_height(face_height),
             face_x |-> face_x(lgw),
             y_label_x |-> y_label_x(lgw, longest_y_label_width),
             x_label_x |-> x_label_x(lgw),
             x_label_y |-> x_label_y(face_height)]


\* ------------------------------------------------------------------------
\* Text blocks: a block is a sequence of rows, a row a sequence of
\* one-character strings; " " is the blank character
\* ------------------------------------------------------------------------
\* number of characters of the label of an axis bound
label_width(v) ==
    IF v.k = "nan" THEN 3
    ELSE IF v.k = "inf" THEN (IF v.v < 0 THEN 4 ELSE 3)
    ELSE (IF v.v < 0 THEN 1 ELSE 0) + (IF v.v > 9 \/ v.v < -9 THEN 2 ELSE 1)

\* text_render::render_y_axis_strings: (label block, longest label width).
\* One row per face row plus the row of the x axis; right-justified labels
\* for the upper bound (top row) and lower bound (bottom row), a tick, the
\* axis line.
render_y_axis_strings(y_axis, face_height) ==
    LET longest == i32_max(label_width(y_axis.lower), label_width(y_axis.upper))
        w(r) == IF r = 1 THEN label_width(y_axis.upper)
                ELSE IF r = face_height + 1 THEN label_width(y_axis.lower)
                ELSE 0
    IN [block |-> [r \in 1..(face_height + 1) |->
                     [c \in 1..(longest + 2) |->
                        IF c = longest + 2 THEN "|"
                        ELSE IF c = longest + 1 THEN (IF w(r) > 0 THEN "-" ELSE " ")
                        ELSE IF c > longest - w(r) THEN "y" ELSE " "]],
        longest |-> longest]

\* text_render::render_x_axis_strings: (label block, start_offset).  The
\* axis line with its ticks, then the label row; the label of the lower
\* bound is centred under the first tick, so the block starts half a label
\* to the left of the axis.
render_x_axis_strings(x_axis, face_width) ==
    LET w == label_width(x_axis.lower)
    IN [block |-> << [c \in 1..(face_width + 1) |-> IF c = 1 THEN "+" ELSE "-"],
                     [c \in 1..i32_max(face_width + 1, w) |->
                        IF c <= w THEN "x" ELSE " "] >>,
        start_offset |-> -(w \div 2)]

\* Representation::to_text: a block of exactly face_width x face_height
\* characters; a dense representation fills it, a sparse one marks every
\* other cell
repr_to_text(repr, x_axis, y_axis, face_width, face_height) ==
    [r \in 1..face_height |->
       [c \in 1..face_width |->
          IF repr.dense \/ (r + c) % 2 = 0 THEN repr.glyph ELSE " "]]

\* text_render::overlay: `over` placed on `under` with its top-left cell at
\* column x, row y (0-based); a non-blank cell of `over` replaces the cell
\* under it, a blank one is transparent, cells outside `under` are dropped
overlay(under, over, x, y) ==
    [r \in 1..Len(under) |->
       [c \in 1..Len(under[r]) |->
          LET orow == r - y
              ocol == c - x
          IN IF /\ orow \in 1..Len(over)
                /\ ocol \in 1..Len(over[orow])
                /\ over[orow][ocol] # " "
             THEN over[orow][ocol]
             ELSE under[r][c]]]

\* (0..view_height).map(|_| (0..view_width).map(|_| ' '))
blank_canvas(width, height) == [r \in 1..height |-> [c \in 1..width |-> " "]]

RECURSIVE overlay_faces(_, _, _)
\* the for loop of to_text: each face block overlaid in order at (x, 0)
overlay_faces(canvas, faces, x) ==
    IF faces = <<>>
    THEN canvas
    ELSE overlay_faces(overlay(canvas, Head(faces), x, 0), Tail(faces), x)

\* s back to front
Reverse(s) == [i \in 1..Len(s) |-> s[Len(s) + 1 - i]]

\* fault: the axis label blocks are overlaid first and the faces in reverse
composite_axes_under(faces, y_block, x_block, lay_) ==
    overlay_faces(
        overlay(overlay(blank_canvas(lay_.view_width, lay_.view_height),
                        x_block, lay_.x_label_x, lay_.x_label_y),
                y_block, lay_.y_label_x, 0),
        Reverse(faces), lay_.face_x)
\* the canvas to_text returns: the blank canvas, the face blocks, the y-axis
\* label block, the x-axis label block
composite(faces, y_block, x_block, lay_) ==
    overlay(overlay(overlay_faces(blank_canvas(lay_.view_width, lay_.view_height),
                                  faces, lay_.face_x),
                    y_block, lay_.y_label_x, 0),
            x_block, lay_.x_label_x, lay_.x_label_y)

\* what to_text leaves behind: its locals and the returned canvas
text_result(reprs, xr, yr, face_width, face_height, checks) ==
    LET x_axis == x_axis_of(reprs, xr)
        y_axis == y_axis_of(reprs, yr)
        ys == render_y_axis_strings(y_axis, face_height)
        xs == render_x_axis_strings(x_axis, face_width)
        lay_ == layout(face_width, face_height, ys.longest, xs.start_offset,
                       Len(reprs), checks)
        faces == [i \in 1..Len(reprs) |->
                    repr_to_text(reprs[i], x_axis, y_axis, face_width, face_height)]
    IN [kind |-> "text", face_width |-> face_width, face_height |-> face_height,
        x_axis |-> x_axis, y_axis |-> y_axis, layout |-> lay_,
        canvas |-> IF lay_.panicked THEN <<>>
                   ELSE composite(faces, ys.block, xs.block, lay_)]

\* fault: to_text stores the range it resolved in the view
to_text_caching(face_width, face_height) ==
    /\ out' = text_result(representations, x_range, y_range, face_width,
                          face_height, overflow_checks)
    /\ first' = IF first = NoRender THEN [kind |-> "first", view |-> view_vars, render |-> out']
                 ELSE first
    /\ x_range' = Some(resolve(x_range, default_x_range(representations)))
    /\ UNCHANGED <<representations, y_range, overflow_checks,
                   added, x_set, y_set, lay>>
\* View::to_text
to_text(face_width, face_height) ==
    /\ out' = text_result(representations, x_range, y_range, face_width,
                          face_height, overflow_checks)
    /\ first' = IF first = NoRender THEN [kind |-> "first", view |-> view_vars, render |-> out']
                 ELSE first
    /\ UNCHANGED <<representations, x_range, y_range, overflow_checks,
                   added, x_set, y_set, lay>>

\* ------------------------------------------------------------------------
\* The view: any sequence of builder calls and renders
\* ------------------------------------------------------------------------
Idle == [pc |-> "idle"]

\* face sizes callers pass: the empty face and the largest one explored
TextFaces == {0, MaxFace}
SvgFaces == {1, MaxFace}

Init ==
    /\ new
    /\ overflow_checks \in BOOLEAN
    /\ out = NoRender
    /\ first = NoRender
    /\ added = <<>>
    /\ x_set = None
    /\ y_set = None
    /\ lay = Idle

Next ==
    \/ \E repr \in Reprs : add(repr)
    \/ \E a \in RangeArgs : set_x_range(a[1], a[2])
    \/ \E a \in RangeArgs : set_y_range(a[1], a[2])
    \/ \E w \in SvgFaces, h \in SvgFaces : to_svg(w, h)
    \/ \E w \in TextFaces, h \in TextFaces : to_text(w, h)

Spec == Init /\ [][Next]_vars

\* ------------------------------------------------------------------------
\* to_text on an empty or one-element view, for every pair the text backend
\* can return and face sizes up to the largest u32
\* ------------------------------------------------------------------------
LayoutFaces == {0, 1, I32_MAX, I32_MAX + 1, U32_MAX - 2, U32_MAX}

InitLayout ==
    /\ new
    /\ overflow_checks \in BOOLEAN
    /\ out = NoRender
    /\ first = NoRender
    /\ added = <<>>
    /\ x_set = None
    /\ y_set = None
    /\ \E fw \in LayoutFaces, fh \in LayoutFaces, l \in 0..I32_MAX,
          so \in I32_MIN..I32_MAX, n \in 0..1 :
          lay = [pc |-> "ready", face_width |-> fw, face_height |-> fh,
                 longest_y_label_width |-> l, start_offset |-> so, nreprs |-> n]

\* lines 126-151 of to_text, the backend having returned
\* lay.longest_y_label_width and lay.start_offset
to_text_layout ==
    /\ lay.pc = "ready"
    /\ LET res == layout(lay.face_width, lay.face_height, lay.longest_y_label_width,
                         lay.start_offset, lay.nreprs, overflow_checks)
       IN lay' = [lay EXCEPT !.pc = "done"] @@
                 [res |-> res,
                  blank |-> IF res.panicked THEN <<>>
                            ELSE blank_canvas(res.view_width, res.view_height)]
    /\ UNCHANGED <<representations, x_range, y_range, overflow_checks, out, first,
                   added, x_set, y_set>>

NextLayout == to_text_layout

SpecLayout == InitLayout /\ [][NextLayout]_vars


\* ------------------------------------------------------------------------
\* Properties of the view (checked under Spec)
\* ------------------------------------------------------------------------
rendered == out.kind # "none" /\ (out.kind = "text" => ~out.layout.panicked)

\* v is the least of the non-NaN values of S, +infinity when there is none
is_min_of(v, S) ==
    LET T == {s \in S : ~is_nan(s)}
    IN IF T = {} THEN v = INFINITY
       ELSE v \in T /\ \A s \in T : ~f64_lt(s, v)

\* v is the greatest of the non-NaN values of S, -infinity when there is none
is_max_of(v, S) ==
    LET T == {s \in S : ~is_nan(s)}
    IN IF T = {} THEN v = NEG_INFINITY
       ELSE v \in T /\ \A s \in T : ~f64_lt(v, s)

extent_mins(dim) == {repr_range(representations[i], dim)[1] : i \in 1..Len(representations)}
extent_maxs(dim) == {repr_range(representations[i], dim)[2] : i \in 1..Len(representations)}

\* C1: without an override on a dimension, the axis a render builds spans
\* exactly (least of the representations' minima, greatest of their maxima)
\* on that dimension, NaN extents being ignored by f64::min / f64::max; with
\* no representation it is (+infinity, -infinity), and the render returns.
Thm_C1 ==
    out.kind # "none" =>
        /\ ~x_range.some =>
              /\ is_min_of(out.x_axis.lower, extent_mins(0))
              /\ is_max_of(out.x_axis.upper, extent_maxs(0))
        /\ ~y_range.some =>
              /\ is_min_of(out.y_axis.lower, extent_mins(1))
              /\ is_max_of(out.y_axis.upper, extent_maxs(1))
        /\ (representations = <<>> /\ ~x_range.some /\ ~y_range.some) =>
              /\ rendered
              /\ out.x_axis = Axis_new(INFINITY, NEG_INFINITY)
              /\ out.y_axis = Axis_new(INFINITY, NEG_INFINITY)

Wit_C1 ==
    /\ out.kind = "text"
    /\ ~x_range.some /\ ~y_range.some
    /\ representations = <<ReprC, ReprB>>
    /\ out.x_axis = Axis_new(Num(-1), Num(2))
    /\ out.y_axis = Axis_new(Num(1), Num(3))

\* C2: once x_range(min, max) (resp. y_range) has been called, a render
\* builds that axis from exactly the arguments of the latest call, whatever
\* the representations; a dimension never overridden uses its default.
Thm_C2 ==
    out.kind # "none" =>
        /\ out.x_axis = IF x_set.some THEN Axis_new(x_set.val[1], x_set.val[2])
                        ELSE LET d == default_x_range(representations)
                             IN Axis_new(d.lower, d.upper)
        /\ out.y_axis = IF y_set.some THEN Axis_new(y_set.val[1], y_set.val[2])
                        ELSE LET d == default_y_range(representations)
                             IN Axis_new(d.lower, d.upper)

Wit_C2 ==
    /\ out.kind = "text"
    /\ x_set = Some(<<Num(-10), Num(10)>>)
    /\ ~y_set.some
    /\ representations = <<ReprA>>
    /\ out.x_axis = Axis_new(Num(-10), Num(10))
    /\ out.y_axis = Axis_new(Num(0), Num(1))

\* the blocks to_text places, bottom first, with their origins
layers_of(o) ==
    [i \in 1..Len(representations) |->
        [block |-> repr_to_text(representations[i], o.x_axis, o.y_axis,
                                o.face_width, o.face_height),
         x |-> o.layout.left_gutter_width + 1, y |-> 0]]
    \o << [block |-> render_y_axis_strings(o.y_axis, o.face_height).block,
           x |-> o.layout.left_gutter_width - 1
                 - render_y_axis_strings(o.y_axis, o.face_height).longest,
           y |-> 0],
          [block |-> render_x_axis_strings(o.x_axis, o.face_width).block,
           x |-> o.layout.left_gutter_width, y |-> o.face_height] >>

\* the character layer L shows at canvas cell (r, c), " " when none
char_at(L, r, c) ==
    IF (r - L.y) \in 1..Len(L.block) /\ (c - L.x) \in 1..Len(L.block[r - L.y])
    THEN L.block[r - L.y][c - L.x]
    ELSE " "

set_max(S) == CHOOSE m \in S : \A n \in S : n <= m

\* C6: every cell of the canvas to_text returns shows the character of the
\* last block, in the order faces (insertion order), y-axis labels, x-axis
\* labels, that is non-blank at that cell, and a blank when there is none.
Thm_C6 ==
    (out.kind = "text" /\ ~out.layout.panicked) =>
        LET layers == layers_of(out)
        IN \A r \in 1..Len(out.canvas) : \A c \in 1..Len(out.canvas[r]) :
              LET hits == {i \in 1..Len(layers) : char_at(layers[i], r, c) # " "}
              IN out.canvas[r][c] =
                    IF hits = {} THEN " " ELSE char_at(layers[set_max(hits)], r, c)

\* a dense line under a sparse marker on a 2 x 2 face: the marker wins where
\* it draws, the line shows through where the marker is blank
Wit_C6 ==
    /\ out.kind = "text"
    /\ representations = <<ReprB, ReprA>>
    /\ out.face_width = 2 /\ out.face_height = 2
    /\ LET x == out.layout.left_gutter_width + 1
       IN /\ out.canvas[1][x + 1] = "o"
          /\ out.canvas[1][x + 2] = "#"
    /\ out.canvas[3][out.layout.left_gutter_width + 1] = "+"

\* the sequences holding the elements of s in some order
perms_of(s) ==
    {p \in [1..Len(s) -> {s[i] : i \in 1..Len(s)}] :
        \E f \in [1..Len(s) -> 1..Len(s)] :
            /\ \A i, j \in 1..Len(s) : f[i] = f[j] => i = j
            /\ \A i \in 1..Len(s) : p[i] = s[f[i]]}

\* C7: the axes a render builds are those any view holding the same
\* representations in another order, with the same overrides, resolves.
Thm_C7 ==
    out.kind # "none" =>
        \A p \in perms_of(representations) :
            /\ x_axis_of(p, x_range) = out.x_axis
            /\ y_axis_of(p, y_range) = out.y_axis

Wit_C7 ==
    /\ out.kind = "svg"
    /\ representations = <<ReprB, ReprA>>
    /\ ~x_range.some /\ ~y_range.some
    /\ out.x_axis = x_axis_of(<<ReprA, ReprB>>, None)
    /\ out.y_axis = y_axis_of(<<ReprA, ReprB>>, None)

\* C8: the group to_svg returns has one child per representation, in
\* insertion order and drawn against the axes and face size of the call,
\* then the x-axis furniture, then the y-axis furniture: n + 2 children.
Thm_C8 ==
    out.kind = "svg" =>
        LET n == Len(representations)
        IN /\ Len(out.group) = n + 2
           /\ \A i \in 1..n :
                 out.group[i] = [node |-> "repr", repr |-> representations[i].name,
                                 x_axis |-> out.x_axis, y_axis |-> out.y_axis,
                                 face_width |-> out.face_width,
                                 face_height |-> out.face_height]
           /\ out.group[n + 1] = [node |-> "x_axis", axis |-> out.x_axis,
                                  face |-> out.face_width]
           /\ out.group[n + 2] = [node |-> "y_axis", axis |-> out.y_axis,
                                  face |-> out.face_height]

Wit_C8 ==
    /\ out.kind = "svg"
    /\ representations = <<ReprA, ReprB>>
    /\ out.group[1].repr = "A"
    /\ out.group[2].repr = "B"
    /\ out.group[4].node = "y_axis"

\* C9: renders leave the view as it was before the first of them, and a
\* render with the kind and face size of the first returns the value the
\* first returned.
Thm_C9 ==
    first.kind # "none" =>
        /\ view_vars = first.view
        /\ (/\ out.kind = first.render.kind
            /\ out.face_width = first.render.face_width
            /\ out.face_height = first.render.face_height) => out = first.render

Wit_C9 ==
    /\ first.kind # "none"
    /\ first.render.kind = "text"
    /\ out.kind = "svg"
    /\ representations = <<ReprA, ReprB>>
    /\ ~x_range.some

\* C10: the representations are the arguments of the add calls in call
\* order, and each override holds the arguments of the latest call that set
\* it, or nothing when there was none.
Thm_C10 ==
    /\ representations = added
    /\ x_range = IF x_set.some THEN Some(Range_new(x_set.val[1], x_set.val[2])) ELSE None
    /\ y_range = IF y_set.some THEN Some(Range_new(y_set.val[1], y_set.val[2])) ELSE None

Wit_C10 ==
    /\ added = <<ReprB, ReprA>>
    /\ x_set = Some(<<Num(0), Num(1)>>)
    /\ ~y_set.some
    /\ out.kind = "none"


\* ------------------------------------------------------------------------
\* Properties of the text layout (checked under SpecLayout); the sums and
\* differences below are those of the integers, not of the machine word
\* ------------------------------------------------------------------------
laid_out == lay.pc = "done" /\ ~lay.res.panicked

\* C3: the blank canvas to_text builds has face_height + 3 rows of
\* face_width + 2 + left_gutter_width columns each, for every face size,
\* longest y-label width and x-label start_offset.
Cex_C3 ==
    laid_out =>
        /\ Len(lay.blank) = lay.face_height + 3
        /\ \A r \in 1..Len(lay.blank) :
              Len(lay.blank[r]) = lay.face_width + 2 + lay.res.left_gutter_width

\* C4: left_gutter_width is max(longest_label_width + 1, -start_offset) for
\* every non-negative longest_label_width and every signed start_offset, so
\* it is at least longest_label_width + 1 and at least -start_offset.
Cex_C4 ==
    (laid_out /\ lay.longest_y_label_width >= 0) =>
        /\ lay.res.left_gutter_width =
              i32_max(lay.longest_y_label_width + 1, -lay.start_offset)
        /\ lay.res.left_gutter_width >= lay.longest_y_label_width + 1
        /\ lay.res.left_gutter_width >= -lay.start_offset

\* (x, y) is a cell of the blank canvas
in_canvas(x, y) ==
    /\ y >= 0 /\ y < Len(lay.blank)
    /\ x >= 0 /\ x < Len(lay.blank[y + 1])

\* C5: for every start_offset and longest_label_width, the origins at which
\* to_text overlays the face blocks, the y-axis label block and the x-axis
\* label block have a non-negative column and row inside the canvas.
Cex_C5 ==
    laid_out =>
        /\ lay.nreprs > 0 => in_canvas(lay.res.face_x, 0)
        /\ in_canvas(lay.res.y_label_x, 0)
        /\ in_canvas(lay.res.x_label_x, lay.res.x_label_y)

====
